---- MODULE Spec2Model ----
(***************************************************************************)
(* Device (ublox-cellular/src/client.rs): the bring-up state machine that  *)
(* spin() drives, together with power_on, is_alive, configure, restart,    *)
(* enable_registration_urcs and send_at.                                   *)
(*                                                                         *)
(* The AT transport is an oracle: a script of outcomes, one per command    *)
(* sent.  The state machine (crate::state::StateMachine) and the network   *)
(* layer (crate::network::Network) are not part of client.rs; they are     *)
(* modelled from their documented contract.                                *)
(***************************************************************************)
EXTENDS Integers, Sequences, FiniteSets, TLC

(* ------------------------------------------------------------------ bounds *)

\* Longest event queue the environment fills.
MaxEvents == 1
\* Initial value of the state machine's maximum number of retry attempts.
MaxRetryAttempts == 2
\* Longest run of equal outcomes a transport script starts with.
RunLen == 7
\* Longest free prefix of the transport scripts the sub-operations are called
\* with on their own; after it the transport answers every command the same way.
ScriptLen == 4
\* Largest `attempts` is_alive is called with on its own.
MaxAttempts == 3
\* Capacity N of the socket set the application attaches.
SocketSlots == 3

(* --------------------------------------------------------------- constants *)

\* client.rs:159, the highest baud rate configure() accepts.
BaudCeiling == 230400
\* client.rs:114, attempts of the liveness probe that decides "already on".
AliveAttemptsFirst == 3
\* client.rs:131, attempts of the liveness probe after the boot wait.
AliveAttemptsBoot == 10

States ==
  << "Init", "PowerOn", "Configure", "DeviceReady", "SimPin", "SignalQuality",
     "RegisteringNetwork", "AttachingNetwork", "Connected" >>

StateSet == { States[i] : i \in 1..Len(States) }

\* Position of a state in the bring-up order.
Ord(s) == CHOOSE i \in 1..Len(States) : States[i] = s

BaudRates == { 115200, 230400, 230401, 460800 }

Configs ==
  [ baud_rate : BaudRates, hex_mode : BOOLEAN, flow_control : BOOLEAN,
    pwr_pin : BOOLEAN ]

\* state::Event, as spin() matches on it.
RadioAccessNetworks == { "Geran", "Utran", "Eutran" }

RegistrationStatuses == { "NotRegistered", "Registered" }

Events ==
  { [ type |-> "Disconnected" ],
    [ type |-> "CellularRadioAccessTechnologyChanged" ],
    [ type |-> "CellularCellIDChanged" ] }
  \cup { [ type |-> "CellularRegistrationStatusChanged", ran |-> r, status |-> s ] :
           r \in RadioAccessNetworks, s \in RegistrationStatuses }

\* Outcomes of one command/response exchange: a reply or a transport error.
NetErrors == { "Timeout", "Parse" }

Outcomes == { "Ok" } \cup NetErrors

\* The outcomes the driver's polls are checked with: a reply or one error.
DriverOutcomes == { "Ok", "Timeout" }

\* The configurations the driver's polls are checked with.
DriverConfigs ==
  { c \in Configs : c.baud_rate \in { 230400, 460800 } /\ ~c.hex_mode /\ c.flow_control }

(* --------------------------------------------------------------- transport *)

\* Sequences over S of length at most n.
SeqUpTo(S, n) == UNION { [ 1..k -> S ] : k \in 0..n }

\* A transport script: the outcomes of the first commands, then one outcome
\* for every later command.
Scripts(S, n) == [ pre : SeqUpTo(S, n), rest : S ]

\* The scripts of two runs: the first l commands get one outcome, the later
\* ones another.
RunScripts(S, n) ==
  { [ pre |-> << >>, rest |-> b ] : b \in S }
  \cup { [ pre |-> [ i \in 1..l |-> ab[1] ], rest |-> ab[2] ] :
           ab \in { x \in S \X S : x[1] # x[2] }, l \in 1..n }

Outcome(tx, i) == IF i <= Len(tx.pre) THEN tx.pre[i] ELSE tx.rest

\* The AT commands client.rs sends.
ATCommands ==
  { "AT", "SetReportMobileTerminationError(Verbose)",
    "SetCircuit109Behaviour(ChangesWithCarrier)", "SetCircuit108Behaviour(Ignore)",
    "SetPowerSavingControl(Disabled)", "SetHexMode(Enabled)", "SetHexMode(Disabled)",
    "SetModuleFunctionality(AirplaneMode)", "SetFlowControl(RtsCts)",
    "SetFlowControl(Disabled)", "SetMessageWaitingIndication(Disabled)",
    "SetModuleFunctionality(SilentReset)",
    "SetModuleFunctionality(SilentResetWithSimReset)",
    "SetNetworkRegistrationStatus(UrcDisabled)",
    "SetGPRSNetworkRegistrationStatus(UrcVerbose)",
    "SetEPSNetworkRegistrationStatus(UrcVerbose)",
    "SetRadioAccessTechnology(Lte,Utran)", "SetModuleFunctionality(Full)",
    "GetPinStatus", "GetGPRSAttached", "SetPacketDomainEventReporting", "GetCCID",
    "UserCommand" }

DelayCalls == { "delay_ms(PWR_ON_PULL_TIME_MS)", "delay_ms(BOOT_WAIT_TIME_MS)" }

\* The effect log of one operation: its calls in order (ev), with the number
\* of commands (n) and of delay calls (k) among them.
NoLog == [ ev |-> << >>, n |-> 0, k |-> 0 ]

\* The commands of a list of effects, in the order sent.
Sent(ev) == SelectSeq(ev, LAMBDA e : e.cmd \in ATCommands)

\* The environment of one operation: the transport script tx and the set dl of
\* delay calls (by position) that fail.
Env(tx, dl) == [ tx |-> tx, dl |-> dl ]

\* Result of a call: what it returned and the effect log after it.
Res(ret, io) == [ ret |-> ret, io |-> io ]

\* Network::send_internal: one command/response exchange.
send_internal(io, env, cmd) ==
  LET r == Outcome(env.tx, io.n + 1)
  IN  Res(r, [ io EXCEPT !.ev = Append(@, [ cmd |-> cmd, res |-> r ]), !.n = @ + 1 ])

\* send_internal of a query: a successful exchange returns the parsed reply.
send_query(io, env, cmd, reply) ==
  LET r == Outcome(env.tx, io.n + 1)
      v == IF r = "Ok" THEN reply ELSE r
  IN  Res(v, [ io EXCEPT !.ev = Append(@, [ cmd |-> cmd, res |-> v ]), !.n = @ + 1 ])

\* DelayMs::try_delay_ms, as called through map_err(|_| Error::Busy).
try_delay_ms(io, env, what) ==
  LET r == IF (io.k + 1) \in env.dl THEN "Busy" ELSE "Ok"
  IN  Res(r, [ io EXCEPT !.ev = Append(@, [ cmd |-> what, res |-> r ]), !.k = @ + 1 ])

\* A call that is logged and whose result is dropped or cannot fail: the power
\* pin's try_set_low / try_set_high, the backoff timer's try_start.
note(io, what, r) == [ io EXCEPT !.ev = Append(@, [ cmd |-> what, res |-> r ]) ]

pin(io, what) == note(io, what, "Ok")

(* ---------------------------------------------------------- sub-operations *)

RECURSIVE SendAll(_, _, _)
\* A run of send_internal(..)? calls: the first failure returns its error and
\* nothing after it is sent.
SendAll(io, env, cmds) ==
  IF cmds = << >> THEN Res("Ok", io)
  ELSE LET s == send_internal(io, env, Head(cmds))
       IN  IF s.ret = "Ok" THEN SendAll(s.io, env, Tail(cmds)) ELSE s

\* Device::initialize: sets the power pin high unless told to leave it alone.
initialize(io, cfg, leave_pwr_alone) ==
  IF cfg.pwr_pin /\ ~leave_pwr_alone
  THEN Res("Ok", pin(io, "pwr.try_set_high"))
  ELSE Res("Ok", io)

RECURSIVE is_alive_loop(_, _, _, _)
\* The for loop of is_alive with k iterations left and `error` the value of
\* the local of that name.
is_alive_loop(io, env, k, error) ==
  IF k = 0 THEN Res(error, io)
  ELSE LET s == send_internal(io, env, "AT")
       IN  IF s.ret = "Ok" THEN Res("Ok", s.io)
           ELSE is_alive_loop(s.io, env, k - 1, s.ret)

\* is_alive probing once more than asked.
is_alive_OneMore(io, env, attempts) ==
  is_alive_loop(io, env, attempts + 1, "BaudDetection")

\* Device::is_alive.
is_alive(io, env, attempts) == is_alive_loop(io, env, attempts, "BaudDetection")

\* Device::restart.
restart(io, env, sim_reset) ==
  IF sim_reset
  THEN send_internal(io, env, "SetModuleFunctionality(SilentResetWithSimReset)")
  ELSE send_internal(io, env, "SetModuleFunctionality(SilentReset)")

\* power_on after the first probe failed, from the boot wait on.
power_on_boot(io, env) ==
  LET d == try_delay_ms(io, env, "delay_ms(BOOT_WAIT_TIME_MS)")
  IN  IF d.ret # "Ok" THEN d ELSE is_alive(d.io, env, AliveAttemptsBoot)

\* power_on_start pulsing the power pin whether or not one is configured.
power_on_start_AlwaysPulses(io, env, cfg) ==
  LET d == try_delay_ms(pin(io, "pwr.try_set_low"), env,
                        "delay_ms(PWR_ON_PULL_TIME_MS)")
  IN  IF d.ret # "Ok" THEN d
      ELSE power_on_boot(pin(d.io, "pwr.try_set_high"), env)

\* power_on after the first probe failed: the pin pulse or the software restart.
power_on_start(io, env, cfg) ==
  IF cfg.pwr_pin
  THEN LET d == try_delay_ms(pin(io, "pwr.try_set_low"), env,
                             "delay_ms(PWR_ON_PULL_TIME_MS)")
       IN  IF d.ret # "Ok" THEN d
           ELSE power_on_boot(pin(d.io, "pwr.try_set_high"), env)
  ELSE LET r == restart(io, env, FALSE)
       IN  IF r.ret # "Ok" THEN r ELSE power_on_boot(r.io, env)

\* Device::power_on. vint_value is false whether or not a VINT pin exists.
power_on(io, env, cfg) ==
  LET vint_value == FALSE
      a == is_alive(io, env, AliveAttemptsFirst)
  IN  IF vint_value THEN Res("Ok", io)
      ELSE IF a.ret = "Ok" THEN a
      ELSE power_on_start(a.io, env, cfg)

\* ConfigureCommands with flow control set before airplane mode is entered.
ConfigureCommands_FlowBeforeAirplane(cfg) ==
  << "SetReportMobileTerminationError(Verbose)",
     "SetCircuit109Behaviour(ChangesWithCarrier)",
     "SetCircuit108Behaviour(Ignore)",
     "SetPowerSavingControl(Disabled)",
     IF cfg.hex_mode THEN "SetHexMode(Enabled)" ELSE "SetHexMode(Disabled)",
     IF cfg.flow_control THEN "SetFlowControl(RtsCts)" ELSE "SetFlowControl(Disabled)",
     "SetModuleFunctionality(AirplaneMode)",
     "SetMessageWaitingIndication(Disabled)" >>

\* The commands of configure, in program order.
ConfigureCommands(cfg) ==
  << "SetReportMobileTerminationError(Verbose)",
     "SetCircuit109Behaviour(ChangesWithCarrier)",
     "SetCircuit108Behaviour(Ignore)",
     "SetPowerSavingControl(Disabled)",
     IF cfg.hex_mode THEN "SetHexMode(Enabled)" ELSE "SetHexMode(Disabled)",
     "SetModuleFunctionality(AirplaneMode)",
     IF cfg.flow_control THEN "SetFlowControl(RtsCts)" ELSE "SetFlowControl(Disabled)",
     "SetMessageWaitingIndication(Disabled)" >>

\* configure rejecting the ceiling itself.
configure_RejectsCeiling(io, env, cfg) ==
  IF cfg.baud_rate >= BaudCeiling THEN Res("_Unknown", io)
  ELSE SendAll(io, env, ConfigureCommands(cfg))

\* Device::configure.
configure(io, env, cfg) ==
  IF cfg.baud_rate > BaudCeiling THEN Res("_Unknown", io)
  ELSE SendAll(io, env, ConfigureCommands(cfg))

\* Device::enable_registration_urcs.
enable_registration_urcs(io, env) ==
  SendAll(io, env,
          << "SetNetworkRegistrationStatus(UrcDisabled)",
             "SetGPRSNetworkRegistrationStatus(UrcVerbose)",
             "SetEPSNetworkRegistrationStatus(UrcVerbose)" >>)

(* ------------------------------------------------------------ state machine *)

VARIABLES
  config,              \* Device.config, fixed at construction
  fsm,                 \* Device.fsm: state, retry_count, max_retry_attempts
  events,              \* the network layer's event queue
  attached,            \* network.attached
  pdp_context_active,  \* network.pdp_context_active
  op,                  \* the operation that ran last
  arg,                 \* its argument, where it has one
  ret,                 \* what it returned
  io,                  \* the commands, delays and pin operations it made
  path,                \* the states fsm.state took during it, the entry state first
  pending,             \* the kinds of forcing events in the queue it found
  forced,              \* the event that made it set the state, if any
  sockets,             \* Device.sockets: << >> for None, else the slots of the set
  handles              \* the slot ids the application was handed and still holds

vars ==
  << config, fsm, events, attached, pdp_context_active, op, arg, ret, io, path,
     pending, forced, sockets, handles >>

\* StateMachine::new.
NewStateMachine ==
  [ state |-> "Init", retry_count |-> 0, max_retry_attempts |-> MaxRetryAttempts ]

\* StateMachine::set_state: unconditional overwrite.
set_state(f, s) == [ f EXCEPT !.state = s ]

\* StateMachine::is_retry: a backoff was armed and no reset came since.
is_retry(f) == f.retry_count > 0

\* StateMachine::reset: clears the counter, back to the initial retry policy.
reset(f) == [ f EXCEPT !.retry_count = 0, !.max_retry_attempts = MaxRetryAttempts ]

\* StateMachine::set_max_retry_attempts.
set_max_retry_attempts(f, n) == [ f EXCEPT !.max_retry_attempts = n ]

\* StateMachine::retry_or_fail: under the maximum, count the attempt and arm the
\* backoff timer; otherwise report the fatal timeout.
retry_or_fail(f, log) ==
  IF f.retry_count < f.max_retry_attempts
  THEN [ fsm |-> [ f EXCEPT !.retry_count = f.retry_count + 1 ],
         ret |-> "WouldBlock",
         io |-> note(log, "delay.try_start", "Ok") ]
  ELSE [ fsm |-> f, ret |-> "StateTimeout", io |-> log ]

\* RegistrationStatus::is_registered(..).is_some().
is_registered(status) == status = "Registered"

\* Reregisters without Connected among the states it applies to.
Reregisters_NotConnected(st, e) ==
  /\ st \in { "SignalQuality", "RegisteringNetwork", "AttachingNetwork" }
  /\ e.ran \in { "Utran", "Eutran" }
  /\ is_registered(e.status)

\* The event loop's test on a CellularRegistrationStatusChanged event.
Reregisters(st, e) ==
  /\ st \in { "SignalQuality", "RegisteringNetwork", "AttachingNetwork", "Connected" }
  /\ e.ran \in { "Utran", "Eutran" }
  /\ is_registered(e.status)

\* Forces with the disconnect event only logged.
Forces_IgnoresDisconnect(st, e) ==
  IF e.type = "CellularRegistrationStatusChanged" /\ Reregisters(st, e)
  THEN "RegisteringNetwork" ELSE "none"

\* The `match event` of spin's event loop: the state the event makes spin set
\* (followed by clear_events()), or "none" when the event is only logged.
Forces(st, e) ==
  CASE e.type = "Disconnected" -> "Init"
    [] e.type = "CellularRegistrationStatusChanged" ->
         IF Reregisters(st, e) THEN "RegisteringNetwork" ELSE "none"
    [] e.type = "CellularRadioAccessTechnologyChanged" -> "none"
    [] e.type = "CellularCellIDChanged" -> "none"

RECURSIVE Drain(_, _, _, _)
\* The `while let Some(event) = get_event()` loop of spin: q is the queue left,
\* p the states set so far, by the event of type t if any. clear_events()
\* empties the queue, which ends the loop.
Drain(f, q, p, t) ==
  IF q = << >> THEN [ fsm |-> f, events |-> q, path |-> p, forced |-> t ]
  ELSE LET e == Head(q)
           to == Forces(f.state, e)
       IN  IF to = "none" THEN Drain(f, Tail(q), p, t)
           ELSE Drain(set_state(f, to), << >>, Append(p, to), e.type)

\* The kinds of forcing events in a queue: a disconnect, a registration on a
\* cellular (Utran or Eutran) network.
Kinds(q) ==
  { "Disconnected" : i \in { j \in 1..Len(q) : q[j].type = "Disconnected" } }
  \cup { "CellularRegistered" :
           i \in { j \in 1..Len(q) :
                     /\ q[j].type = "CellularRegistrationStatusChanged"
                     /\ q[j].ran \in { "Utran", "Eutran" }
                     /\ is_registered(q[j].status) } }

(* --------------------------------------------------------------------- spin *)

\* What the match on the current state evaluates to: Ok(st) or Err(st) for
\* new_state, or a return out of spin with value ret (`?` and `return`).
\* d carries the fields the arm may write: fsm, attached, pdp_context_active.
ArmOk(st, log, d) ==
  [ kind |-> "Ok", st |-> st, ret |-> "WouldBlock", io |-> log, d |-> d, path |-> << >> ]

ArmErr(st, log, d) ==
  [ kind |-> "Err", st |-> st, ret |-> "WouldBlock", io |-> log, d |-> d, path |-> << >> ]

ArmReturn(r, log, d) ==
  [ kind |-> "Return", st |-> d.fsm.state, ret |-> r, io |-> log, d |-> d, path |-> << >> ]

\* Network::register(None): the sub-protocol's verdict is the input net.
register(log, net) == Res(net, note(log, "register", net))

\* Network::attach(): gated on the attached flag; otherwise the sub-protocol's
\* verdict is the input att.
attach(log, isAttached, att) ==
  IF isAttached THEN Res("Ok", log)
  ELSE Res(att, note(log, "attach", att))

\* State::Init arm.
ArmInit(d, env, cfg) ==
  LET r == initialize(NoLog, cfg, TRUE)
  IN  IF r.ret = "Ok" THEN ArmOk("PowerOn", r.io, d) ELSE ArmErr("Init", r.io, d)

\* ArmPowerOn going on to DeviceReady, past configure.
ArmPowerOn_SkipsConfigure(d, env, cfg) ==
  LET r == power_on(NoLog, env, cfg)
  IN  IF r.ret = "Ok" THEN ArmOk("DeviceReady", r.io, d) ELSE ArmErr("PowerOn", r.io, d)

\* State::PowerOn arm.
ArmPowerOn(d, env, cfg) ==
  LET r == power_on(NoLog, env, cfg)
  IN  IF r.ret = "Ok" THEN ArmOk("Configure", r.io, d) ELSE ArmErr("PowerOn", r.io, d)

\* State::Configure arm.
ArmConfigure(d, env, cfg) ==
  LET r == configure(NoLog, env, cfg)
  IN  IF r.ret = "Ok" THEN ArmOk("DeviceReady", r.io, d) ELSE ArmErr("PowerOn", r.io, d)

\* ArmDeviceReady with a failed command sent down the retry path.
ArmDeviceReady_Retries(d, env) ==
  LET r == SendAll(NoLog, env,
                   << "SetRadioAccessTechnology(Lte,Utran)",
                      "SetModuleFunctionality(Full)" >>)
  IN  IF r.ret = "Ok" THEN ArmOk("SimPin", r.io, d) ELSE ArmErr("PowerOn", r.io, d)

\* State::DeviceReady arm: two commands, each with `?`.
ArmDeviceReady(d, env) ==
  LET r == SendAll(NoLog, env,
                   << "SetRadioAccessTechnology(Lte,Utran)",
                      "SetModuleFunctionality(Full)" >>)
  IN  IF r.ret = "Ok" THEN ArmOk("SimPin", r.io, d) ELSE ArmReturn(r.ret, r.io, d)

\* ArmSimPinReady taking a failed attach query for "not attached".
ArmSimPinReady_IgnoresFailure(d, env, log, gprs) ==
  LET cleared == [ d EXCEPT !.attached = FALSE, !.pdp_context_active = FALSE ]
      g == send_query(log, env, "GetGPRSAttached", gprs)
      upd == IF g.ret = "Attached" THEN [ cleared EXCEPT !.attached = TRUE ] ELSE cleared
      e == send_internal(g.io, env, "SetPacketDomainEventReporting")
  IN  ArmOk("SignalQuality", e.io, upd)

\* State::SimPin arm once the PIN status is Ready.
ArmSimPinReady(d, env, log, gprs) ==
  LET cleared == [ d EXCEPT !.attached = FALSE, !.pdp_context_active = FALSE ]
      g == send_query(log, env, "GetGPRSAttached", gprs)
      upd == IF g.ret = "Attached" THEN [ cleared EXCEPT !.attached = TRUE ] ELSE cleared
      e == send_internal(g.io, env, "SetPacketDomainEventReporting")
  IN  IF g.ret \in NetErrors THEN ArmReturn(g.ret, g.io, cleared)
      ELSE ArmOk("SignalQuality", e.io, upd)

\* ArmSimPin with its failed commands sent down the retry path.
ArmSimPin_Retries(d, env, code, gprs) ==
  LET u == enable_registration_urcs(NoLog, env)
      q == send_query(u.io, env, "GetPinStatus", code)
  IN  IF u.ret # "Ok" THEN ArmErr("PowerOn", u.io, d)
      ELSE IF q.ret \in NetErrors THEN ArmErr("PowerOn", q.io, d)
      ELSE IF q.ret = "Ready" THEN ArmSimPinReady(d, env, q.io, gprs)
      ELSE ArmErr("PowerOn", q.io, d)

\* State::SimPin arm.
ArmSimPin(d, env, code, gprs) ==
  LET u == enable_registration_urcs(NoLog, env)
      q == send_query(u.io, env, "GetPinStatus", code)
  IN  IF u.ret # "Ok" THEN ArmReturn(u.ret, u.io, d)
      ELSE IF q.ret \in NetErrors THEN ArmReturn(q.ret, q.io, d)
      ELSE IF q.ret = "Ready" THEN ArmSimPinReady(d, env, q.io, gprs)
      ELSE ArmErr("PowerOn", q.io, d)

\* ArmSignalQuality skipping the registration state.
ArmSignalQuality_Skips(d, env) ==
  ArmOk("AttachingNetwork", send_internal(NoLog, env, "GetCCID").io, d)

\* State::SignalQuality arm: the CCID query's failure is ignored.
ArmSignalQuality(d, env) ==
  ArmOk("RegisteringNetwork", send_internal(NoLog, env, "GetCCID").io, d)

\* ArmRegistrationDenied without set_max_retry_attempts(0).
ArmRegistrationDenied_KeepsBudget(d, env, log) ==
  LET r == restart(log, env, TRUE)
      w == try_delay_ms(r.io, env, "delay_ms(BOOT_WAIT_TIME_MS)")
  IN  IF r.ret # "Ok" THEN ArmReturn(r.ret, r.io, d)
      ELSE IF w.ret # "Ok" THEN ArmReturn("Busy", w.io, d)
      ELSE ArmErr("PowerOn", w.io, d)

\* The RegistrationDenied arm of State::RegisteringNetwork.
ArmRegistrationDenied(d, env, log) ==
  LET r == restart(log, env, TRUE)
      w == try_delay_ms(r.io, env, "delay_ms(BOOT_WAIT_TIME_MS)")
  IN  IF r.ret # "Ok" THEN ArmReturn(r.ret, r.io, d)
      ELSE IF w.ret # "Ok" THEN ArmReturn("Busy", w.io, d)
      ELSE ArmErr("PowerOn", w.io,
                  [ d EXCEPT !.fsm = set_max_retry_attempts(d.fsm, 0) ])

\* State::RegisteringNetwork arm.
ArmRegisteringNetwork(d, env, net) ==
  LET r == register(NoLog, net)
  IN  CASE r.ret = "Ok" -> ArmOk("AttachingNetwork", r.io, d)
        [] r.ret = "RegistrationDenied" -> ArmRegistrationDenied(d, env, r.io)
        [] OTHER -> ArmErr("PowerOn", r.io, d)

\* State::AttachingNetwork arm.
ArmAttachingNetwork(d, att) ==
  LET r == attach(NoLog, d.attached, att)
  IN  IF r.ret = "Ok" THEN ArmOk("Connected", r.io, d) ELSE ArmErr("PowerOn", r.io, d)

\* State::Connected arm: reset the retry policy and return Ok(()).
ArmConnected(d) == ArmReturn("Ok", NoLog, [ d EXCEPT !.fsm = reset(d.fsm) ])

\* `match self.fsm.get_state()`. inp holds the replies the arm reads.
Arm(d, env, cfg, inp) ==
  CASE d.fsm.state = "Init" -> ArmInit(d, env, cfg)
    [] d.fsm.state = "PowerOn" -> ArmPowerOn(d, env, cfg)
    [] d.fsm.state = "Configure" -> ArmConfigure(d, env, cfg)
    [] d.fsm.state = "DeviceReady" -> ArmDeviceReady(d, env)
    [] d.fsm.state = "SimPin" -> ArmSimPin(d, env, inp.code, inp.gprs)
    [] d.fsm.state = "SignalQuality" -> ArmSignalQuality(d, env)
    [] d.fsm.state = "RegisteringNetwork" -> ArmRegisteringNetwork(d, env, inp.net)
    [] d.fsm.state = "AttachingNetwork" -> ArmAttachingNetwork(d, inp.att)
    [] d.fsm.state = "Connected" -> ArmConnected(d)

\* Commit moving to the fallback state on every failure, retry armed or not.
Commit_FallsBackAtOnce(a) ==
  CASE a.kind = "Ok" ->
         [ a EXCEPT !.d.fsm = set_state(a.d.fsm, a.st), !.path = << a.st >> ]
    [] a.kind = "Err" ->
         LET rf == retry_or_fail(a.d.fsm, a.io)
         IN  [ a EXCEPT !.d.fsm = set_state(rf.fsm, a.st), !.io = rf.io,
                        !.path = << a.st >>, !.kind = "Fatal" ]
    [] OTHER -> a

\* `match new_state` at the end of spin.
Commit(a) ==
  CASE a.kind = "Ok" ->
         [ a EXCEPT !.d.fsm = set_state(a.d.fsm, a.st), !.path = << a.st >> ]
    [] a.kind = "Err" ->
         LET rf == retry_or_fail(a.d.fsm, a.io)
         IN  IF rf.ret = "StateTimeout"
             THEN [ a EXCEPT !.d.fsm = set_state(rf.fsm, a.st), !.io = rf.io,
                             !.path = << a.st >>, !.kind = "Fatal" ]
             ELSE [ a EXCEPT !.d.fsm = rf.fsm, !.io = rf.io ]
    [] OTHER -> a

\* The backoff gate: spin returns WouldBlock when a retry is pending and the
\* timer has not elapsed.
Gated(f, wait) == is_retry(f) /\ wait = "WouldBlock"

\* spin matching on the state it was entered in, not the one the events left.
spin_StaleState(f, q, att, pdp, env, cfg, inp) ==
  LET dr == Drain(f, q, << f.state >>, "none")
      d == [ fsm |-> dr.fsm, attached |-> att, pdp_context_active |-> pdp ]
      stale == [ d EXCEPT !.fsm.state = f.state ]
      a == Commit(Arm(stale, env, cfg, inp))
      kept == IF a.path = << >> THEN [ a EXCEPT !.d.fsm.state = dr.fsm.state ] ELSE a
  IN  IF Gated(dr.fsm, inp.wait)
      THEN [ kind |-> "Gated", ret |-> "WouldBlock", io |-> NoLog, d |-> d,
             events |-> dr.events, path |-> dr.path, forced |-> dr.forced ]
      ELSE [ kind |-> kept.kind, ret |-> kept.ret, io |-> kept.io, d |-> kept.d,
             events |-> dr.events, path |-> dr.path \o kept.path,
             forced |-> dr.forced ]

\* spin with the backoff gate ahead of the event loop.
spin_GateFirst(f, q, att, pdp, env, cfg, inp) ==
  LET dr == Drain(f, q, << f.state >>, "none")
      d == [ fsm |-> dr.fsm, attached |-> att, pdp_context_active |-> pdp ]
      a == Commit(Arm(d, env, cfg, inp))
  IN  IF Gated(f, inp.wait)
      THEN [ kind |-> "Gated", ret |-> "WouldBlock", io |-> NoLog,
             d |-> [ fsm |-> f, attached |-> att, pdp_context_active |-> pdp ],
             events |-> q, path |-> << f.state >>, forced |-> "none" ]
      ELSE [ kind |-> a.kind, ret |-> a.ret, io |-> a.io, d |-> a.d,
             events |-> dr.events, path |-> dr.path \o a.path, forced |-> dr.forced ]

\* Device::spin: drain the events, pass the backoff gate, run the state's arm
\* and commit its result. The result holds every field spin may write.
spin(f, q, att, pdp, env, cfg, inp) ==
  LET dr == Drain(f, q, << f.state >>, "none")
      d == [ fsm |-> dr.fsm, attached |-> att, pdp_context_active |-> pdp ]
      a == Commit(Arm(d, env, cfg, inp))
  IN  IF Gated(dr.fsm, inp.wait)
      THEN [ kind |-> "Gated", ret |-> "WouldBlock", io |-> NoLog, d |-> d,
             events |-> dr.events, path |-> dr.path, forced |-> dr.forced ]
      ELSE [ kind |-> a.kind, ret |-> a.ret, io |-> a.io, d |-> a.d,
             events |-> dr.events, path |-> dr.path \o a.path, forced |-> dr.forced ]

\* send_at without the test on the state.
send_at_NoCheck(f, env, cmd) == send_internal(NoLog, env, cmd)

\* Device::send_at.
send_at(f, env, cmd) ==
  IF f.state = "Init" THEN Res("Uninitialized", NoLog)
  ELSE send_internal(NoLog, env, cmd)

(* ------------------------------------------------------------------ actions *)

Min(a, b) == IF a < b THEN a ELSE b

\* The transport that answers every command.
AllOk == [ pre |-> << >>, rest |-> "Ok" ]

\* Most commands the arm of a state sends in one poll.
CommandsOf(st) ==
  CASE st = "PowerOn" -> AliveAttemptsFirst + 1 + AliveAttemptsBoot
    [] st = "Configure" -> Len(ConfigureCommands(config))
    [] st = "DeviceReady" -> 2
    [] st = "SimPin" -> 6
    [] st \in { "SignalQuality", "RegisteringNetwork" } -> 1
    [] OTHER -> 0

\* The inputs one poll reads, by the state its arm runs in: the transport
\* script, the delay calls that fail, the verdicts of register and attach, the
\* PIN status and GPRS attach replies, and the backoff timer's try_wait.
TxFor(st) == RunScripts(DriverOutcomes, Min(RunLen, CommandsOf(st)))

DlFor(st) ==
  IF st \in { "PowerOn", "RegisteringNetwork" } THEN { {}, { 1 }, { 2 } } ELSE { {} }

NetFor(st) ==
  IF st = "RegisteringNetwork"
  THEN { "Ok", "RegistrationDenied", "Timeout", "WouldBlock" } ELSE { "Ok" }

AttFor(st) == IF st = "AttachingNetwork" THEN { "Ok", "Timeout", "WouldBlock" } ELSE { "Ok" }

CodeFor(st) == IF st = "SimPin" THEN { "Ready", "SimPin" } ELSE { "Ready" }

GprsFor(st) == IF st = "SimPin" THEN { "Attached", "Detached" } ELSE { "Detached" }

WaitFor(f) == IF is_retry(f) THEN { "Elapsed", "WouldBlock" } ELSE { "Elapsed" }

\* Device::new with a configuration; nothing has run.
Init ==
  /\ config \in DriverConfigs
  /\ fsm = NewStateMachine
  /\ events = << >>
  /\ attached = FALSE
  /\ pdp_context_active = FALSE
  /\ op = "new"
  /\ arg = "-"
  /\ ret = "-"
  /\ io = << >>
  /\ path = << "Init" >>
  /\ pending = {}
  /\ forced = "none"
  /\ sockets = << >>
  /\ handles = << >>

\* An unsolicited notification is parsed into the event queue (handle_urc, or
\* the notification drain of a command exchange).
Urc ==
  /\ Len(events) < MaxEvents
  /\ \E e \in Events : events' = Append(events, e)
  /\ op' = "urc"
  /\ arg' = "-"
  /\ ret' = "-"
  /\ io' = << >>
  /\ path' = << fsm.state >>
  /\ pending' = {}
  /\ forced' = "none"
  /\ UNCHANGED << config, fsm, attached, pdp_context_active, sockets, handles >>

\* What one call of spin() can do in the current state, over the inputs it reads.
SpinResults ==
  LET f == Drain(fsm, events, << >>, "none").fsm
      st == f.state
  IN  UNION { { spin(fsm, events, attached, pdp_context_active, Env(tx, dl), config,
                     [ wait |-> wait, net |-> net, att |-> att, code |-> code,
                       gprs |-> gprs ]) :
                  tx \in (IF Gated(f, wait) THEN { AllOk } ELSE TxFor(st)),
                  dl \in (IF Gated(f, wait) THEN { {} } ELSE DlFor(st)),
                  net \in NetFor(st), att \in AttFor(st), code \in CodeFor(st),
                  gprs \in GprsFor(st) } :
              wait \in WaitFor(f) }

\* spin() returned with the result r.
Polled(r) ==
  /\ fsm' = r.d.fsm
  /\ events' = r.events
  /\ attached' = r.d.attached
  /\ pdp_context_active' = r.d.pdp_context_active
  /\ op' = "spin"
  /\ arg' = r.kind
  /\ ret' = r.ret
  /\ io' = r.io.ev
  /\ path' = r.path
  /\ pending' = Kinds(events)
  /\ forced' = r.forced
  /\ UNCHANGED << config, sockets, handles >>

\* One call of spin().
Spin == \E r \in SpinResults : Polled(r)

\* Device::send_at with a command of the caller's, answered with `out`.
SendAt ==
  \E out \in DriverOutcomes :
    LET r == send_at(fsm, Env([ pre |-> << >>, rest |-> out ], {}), "UserCommand")
    IN  /\ op' = "send_at"
        /\ arg' = out
        /\ ret' = r.ret
        /\ io' = r.io.ev
        /\ path' = << fsm.state >>
        /\ pending' = {}
        /\ forced' = "none"
        /\ UNCHANGED << config, fsm, events, attached, pdp_context_active, sockets,
                        handles >>

Next == Urc \/ Spin \/ SendAt

Spec == Init /\ [][Next]_vars

(* ------------------------------------------------- the polling loop, driven *)

\* What one call of spin() can do when every command is answered, the SIM is
\* ready, registration and attach succeed and no delay fails.
HappyResults ==
  { spin(fsm, events, attached, pdp_context_active, Env(AllOk, {}), config,
         [ wait |-> wait, net |-> "Ok", att |-> "Ok", code |-> "Ready",
           gprs |-> gprs ]) :
      wait \in WaitFor(fsm), gprs \in { "Attached", "Detached" } }

\* One call of spin() with every input favourable and no event queued.
HappySpin == events = << >> /\ \E r \in HappyResults : Polled(r)

\* Any step of the driver and its environment, for a device whose baud rate
\* configure does not accept.
AnyStepAboveCeiling == config.baud_rate > BaudCeiling /\ Next

LiveNext == HappySpin \/ AnyStepAboveCeiling

\* The application's loop calls spin() again and again.
LiveSpec == Init /\ [][LiveNext]_vars /\ WF_vars(HappySpin)

(* ------------------------------------------- the sub-operations on their own *)

\* The inputs a sub-operation is called with: a transport script, the delay
\* calls that fail (power_on) and the attempts (is_alive).
FnArgs ==
  { [ tx |-> tx, dl |-> {}, attempts |-> n ] :
      tx \in Scripts(Outcomes, ScriptLen), n \in 0..MaxAttempts }
  \cup { [ tx |-> tx, dl |-> dl, attempts |-> 0 ] :
           tx \in Scripts(Outcomes, ScriptLen), dl \in { { 1 }, { 2 } } }
  \cup { [ tx |-> tx, dl |-> {}, attempts |-> 0 ] : tx \in RunScripts(Outcomes, RunLen) }

\* A device and the inputs of the call to come.
FnInit ==
  /\ config \in Configs
  /\ fsm = NewStateMachine
  /\ events = << >>
  /\ attached = FALSE
  /\ pdp_context_active = FALSE
  /\ op = "new"
  /\ arg \in FnArgs
  /\ ret = "-"
  /\ io = << >>
  /\ path = << "Init" >>
  /\ pending = {}
  /\ forced = "none"
  /\ sockets = << >>
  /\ handles = << >>

\* The call `name` returned r.
Called(name, r) ==
  /\ op' = name
  /\ ret' = r.ret
  /\ io' = r.io.ev
  /\ UNCHANGED << config, fsm, events, attached, pdp_context_active, arg, path,
                  pending, forced, sockets, handles >>

CallIsAlive ==
  /\ op = "new" /\ arg.dl = {}
  /\ Called("is_alive", is_alive(NoLog, Env(arg.tx, arg.dl), arg.attempts))

CallPowerOn ==
  /\ op = "new" /\ arg.attempts = 0
  /\ Called("power_on", power_on(NoLog, Env(arg.tx, arg.dl), config))

CallConfigure ==
  /\ op = "new" /\ arg.attempts = 0 /\ arg.dl = {}
  /\ Called("configure", configure(NoLog, Env(arg.tx, arg.dl), config))

CallRestart ==
  /\ op = "new" /\ arg.attempts = 0 /\ arg.dl = {}
  /\ \E sim_reset \in BOOLEAN :
       Called(IF sim_reset THEN "restart(true)" ELSE "restart(false)",
              restart(NoLog, Env(arg.tx, arg.dl), sim_reset))

CallEnableRegistrationUrcs ==
  /\ op = "new" /\ arg.attempts = 0 /\ arg.dl = {}
  /\ Called("enable_registration_urcs",
            enable_registration_urcs(NoLog, Env(arg.tx, arg.dl)))

FnNext ==
  CallIsAlive \/ CallPowerOn \/ CallConfigure \/ CallRestart \/ CallEnableRegistrationUrcs

FnSpec == FnInit /\ [][FnNext]_vars

(* ------------------------------------------------------- the socket registry *)

\* The kinds of socket a slot holds.
SocketKinds == { "Tcp", "Udp" }

\* A socket set of SocketSlots slots, none occupied.
EmptySet == [ i \in 1..SocketSlots |-> "free" ]

\* The free and the occupied slots of a socket set.
FreeSlots(set) == { i \in DOMAIN set : set[i] = "free" }

OccupiedSlots(set) == { i \in DOMAIN set : set[i] # "free" }

\* allocate that takes the slot whether or not it is free.
allocate_Overwrites(set, slot, kind) ==
  [ ret |-> << "Ok", slot >>, set |-> [ set EXCEPT ![slot] = kind ] ]

\* allocate(): a free slot takes the socket and its id is returned, as
\* << "Ok", id >>; a full registry returns the capacity error. `slot` is the
\* slot the search tries.
allocate(set, slot, kind) ==
  IF slot \in FreeSlots(set)
  THEN [ ret |-> << "Ok", slot >>, set |-> [ set EXCEPT ![slot] = kind ] ]
  ELSE [ ret |-> << "SocketSetFull" >>, set |-> set ]

\* release(slot id): frees an occupied slot.
release(set, slot) ==
  IF slot \in OccupiedSlots(set)
  THEN [ ret |-> << "Ok" >>, set |-> [ set EXCEPT ![slot] = "free" ] ]
  ELSE [ ret |-> << "InvalidSocket" >>, set |-> set ]

\* The sequence h without its entries equal to x.
Without(h, x) == SelectSeq(h, LAMBDA y : y # x)

\* A device without socket storage.
SockInit ==
  /\ config \in { c \in DriverConfigs : c.baud_rate = BaudCeiling }
  /\ fsm = NewStateMachine
  /\ events = << >>
  /\ attached = FALSE
  /\ pdp_context_active = FALSE
  /\ op = "new"
  /\ arg = "-"
  /\ ret = "-"
  /\ io = << >>
  /\ path = << "Init" >>
  /\ pending = {}
  /\ forced = "none"
  /\ sockets = << >>
  /\ handles = << >>

\* The registry call `name` with argument a returned r.
SockCalled(name, a, r) ==
  /\ op' = name
  /\ arg' = a
  /\ ret' = r.ret
  /\ sockets' = r.set
  /\ UNCHANGED << config, fsm, events, attached, pdp_context_active, io, path,
                  pending, forced >>

\* Device::set_socket_storage with a new socket set.
SetSocketStorage ==
  /\ SockCalled("set_socket_storage", "-", [ ret |-> << >>, set |-> EmptySet ])
  /\ handles' = << >>

\* The application allocates a socket; the search tries a free slot if there
\* is one.
Allocate ==
  /\ sockets # << >>
  /\ \E kind \in SocketKinds :
       \E slot \in (IF FreeSlots(sockets) = {} THEN DOMAIN sockets
                     ELSE FreeSlots(sockets)) :
         LET r == allocate(sockets, slot, kind)
         IN  /\ SockCalled("allocate", kind, r)
             /\ handles' = IF r.ret[1] = "Ok" THEN Append(handles, r.ret[2])
                           ELSE handles

\* The application releases a slot id.
Release ==
  /\ sockets # << >>
  /\ \E slot \in DOMAIN sockets :
       LET r == release(sockets, slot)
       IN  /\ SockCalled("release", slot, r)
           /\ handles' = IF r.ret[1] = "Ok" THEN Without(handles, slot) ELSE handles

SockNext == SetSocketStorage \/ Allocate \/ Release

SockSpec == SockInit /\ [][SockNext]_vars

(* ------------------------------------------------------------------- claims *)

\* The state a poll's arm ran in, and the state the poll left.
ArmState == IF Len(path) >= 2 /\ arg \in { "Ok", "Fatal" } THEN path[Len(path) - 1]
            ELSE path[Len(path)]

\* C1: every step that enters Connected is a poll whose arm ran in
\* AttachingNetwork and succeeded, with a successful attach (or the attached
\* flag already set); and every poll whose arm succeeds moves from the state
\* the arm ran in to its immediate successor in the bring-up order.
C1_SuccessPathInOrder ==
  [][ /\ (fsm'.state = "Connected" /\ fsm.state # "Connected") =>
           /\ op' = "spin" /\ arg' = "Ok"
           /\ fsm.state = "AttachingNetwork"
           /\ path' = << "AttachingNetwork", "Connected" >>
           /\ \/ io' = << [ cmd |-> "attach", res |-> "Ok" ] >>
              \/ (io' = << >> /\ attached)
      /\ (op' = "spin" /\ arg' = "Ok") =>
           /\ Len(path') >= 2
           /\ fsm'.state = path'[Len(path')]
           /\ Ord(path'[Len(path')]) = Ord(path'[Len(path') - 1]) + 1
      /\ fsm'.state # fsm.state => op' = "spin" ]_vars

\* C1 witness: a poll in AttachingNetwork has just entered Connected.
C1_Witness ==
  /\ op = "spin" /\ arg = "Ok"
  /\ fsm.state = "Connected"
  /\ path = << "AttachingNetwork", "Connected" >>

C3_Original ==
  [][ (fsm.state = "Connected" /\ fsm'.state # "Connected") => fsm.retry_count = 0 ]_vars

\* C4: send_at in Init returns Uninitialized, sends nothing and changes no
\* state; in any other state it sends the command exactly once and returns
\* the transport's answer.
C4_SendAtGuard ==
  [][ op' = "send_at" =>
        /\ UNCHANGED << config, fsm, events, attached, pdp_context_active >>
        /\ fsm.state = "Init" => (ret' = "Uninitialized" /\ io' = << >>)
        /\ fsm.state # "Init" =>
             /\ io' = << [ cmd |-> "UserCommand", res |-> ret' ] >>
             /\ ret' \in DriverOutcomes ]_vars

\* C4 witness: send_at was rejected in Init.
C4_Witness ==
  op = "send_at" /\ fsm.state = "Init" /\ ret = "Uninitialized" /\ io = << >>

Denied(l) == l # << >> /\ l[1] = [ cmd |-> "register", res |-> "RegistrationDenied" ]

\* The effects of a denial whose restart and boot wait succeeded.
DeniedAndRestarted ==
  << [ cmd |-> "register", res |-> "RegistrationDenied" ],
     [ cmd |-> "SetModuleFunctionality(SilentResetWithSimReset)", res |-> "Ok" ],
     [ cmd |-> "delay_ms(BOOT_WAIT_TIME_MS)", res |-> "Ok" ] >>

TxAllOk(tx) == tx.rest = "Ok" /\ \A i \in 1..Len(tx.pre) : tx.pre[i] = "Ok"

\* The restart command is among the effects l.
Restarted(l) ==
  \E i \in 1..Len(l) : l[i].cmd = "SetModuleFunctionality(SilentReset)"

\* The effects l touch the power pin.
Pulsed(l) ==
  \E i \in 1..Len(l) :
    l[i].cmd \in { "pwr.try_set_low", "pwr.try_set_high", "delay_ms(PWR_ON_PULL_TIME_MS)" }

\* The effects l from position i on are liveness probes, all failed but
\* possibly the last.
Probes(l, i) ==
  /\ \A j \in i..Len(l) : l[j].cmd = "AT"
  /\ \A j \in i..(Len(l) - 1) : l[j].res \in NetErrors

\* C8 as stated: without a power pin and with a transport that answers every
\* command, power_on sends the soft restart, pulses no pin and succeeds.
C8_Original ==
  (op = "power_on" /\ ~config.pwr_pin /\ TxAllOk(arg.tx) /\ arg.dl = {})
    => (ret = "Ok" /\ Restarted(io) /\ ~Pulsed(io))

\* C8, amended: without a power pin power_on never pulses a pin. If one of
\* its three first probes is answered (as with a transport that answers every
\* command, where the first is) it returns success having sent only probes, no
\* restart. Only when all three fail does it send the soft restart
\* (SilentReset); it then waits the boot time and succeeds exactly when one of
\* up to ten further probes is answered.
C8_SoftRestartOnlyWhenDead ==
  (op = "power_on" /\ ~config.pwr_pin) =>
    LET dead == /\ Len(io) >= AliveAttemptsFirst
                /\ \A i \in 1..AliveAttemptsFirst :
                     io[i].cmd = "AT" /\ io[i].res \in NetErrors
        after == AliveAttemptsFirst + 1
    IN  /\ ~Pulsed(io)
        /\ Restarted(io) <=> dead
        /\ TxAllOk(arg.tx) => (io = << [ cmd |-> "AT", res |-> "Ok" ] >> /\ ret = "Ok")
        /\ ~dead =>
             /\ ret = "Ok" /\ Len(io) <= AliveAttemptsFirst
             /\ Probes(io, 1) /\ io[Len(io)].res = "Ok"
        /\ dead =>
             /\ io[after].cmd = "SetModuleFunctionality(SilentReset)"
             /\ io[after].res # "Ok" => (Len(io) = after /\ ret = io[after].res)
             /\ io[after].res = "Ok" =>
                  /\ io[after + 1].cmd = "delay_ms(BOOT_WAIT_TIME_MS)"
                  /\ io[after + 1].res # "Ok" => (Len(io) = after + 1 /\ ret = "Busy")
                  /\ io[after + 1].res = "Ok" =>
                       /\ Probes(io, after + 2)
                       /\ Len(io) > after + 1
                       /\ Len(io) <= after + 1 + AliveAttemptsBoot
                       /\ ret = io[Len(io)].res
                       /\ ret # "Ok" => Len(io) = after + 1 + AliveAttemptsBoot

\* C8 witness: without a power pin the three probes failed, the soft restart
\* was sent and a later probe was answered.
C8_Witness ==
  /\ op = "power_on" /\ ~config.pwr_pin
  /\ Restarted(io) /\ ~Pulsed(io) /\ ret = "Ok"

\* C9: is_alive(attempts) sends only liveness probes, at most `attempts` of
\* them, each after a failed one; it returns success exactly when the last
\* probe it sent was answered; otherwise it has sent `attempts` probes and
\* returns the failure of the last (BaudDetection when attempts is 0).
C9_IsAliveAttempts ==
  op = "is_alive" =>
    /\ Len(io) <= arg.attempts
    /\ Probes(io, 1)
    /\ \A i \in 1..Len(io) : io[i].res = Outcome(arg.tx, i)
    /\ ret = "Ok" <=> (io # << >> /\ io[Len(io)].res = "Ok")
    /\ ret # "Ok" =>
         /\ Len(io) = arg.attempts
         /\ ret = IF arg.attempts = 0 THEN "BaudDetection" ELSE io[Len(io)].res

\* C9 witness: three probes failed and the failure of the last, which differs
\* from the first, was returned.
C9_Witness ==
  /\ op = "is_alive" /\ arg.attempts = 3 /\ Len(io) = 3
  /\ io[1].res = "Timeout" /\ io[3].res = "Parse" /\ ret = "Parse"

\* Number of changes of state along p.
Changes(p) == Cardinality({ i \in 1..(Len(p) - 1) : p[i] # p[i + 1] })

Propagated(st) ==
  CASE st = "DeviceReady" ->
         { "SetRadioAccessTechnology(Lte,Utran)", "SetModuleFunctionality(Full)" }
    [] st = "SimPin" ->
         { "SetNetworkRegistrationStatus(UrcDisabled)",
           "SetGPRSNetworkRegistrationStatus(UrcVerbose)",
           "SetEPSNetworkRegistrationStatus(UrcVerbose)",
           "GetPinStatus", "GetGPRSAttached" }
    [] st = "RegisteringNetwork" ->
         { "SetModuleFunctionality(SilentResetWithSimReset)",
           "delay_ms(BOOT_WAIT_TIME_MS)" }
    [] OTHER -> {}

\* A command of the effects l failed.
CommandFailed(l) ==
  \E i \in 1..Len(l) : l[i].cmd \in ATCommands /\ l[i].res \in NetErrors

C12_Original ==
  (op = "spin" /\ forced = "Disconnected") => (~attached /\ ~pdp_context_active)

\* C13 as stated: a poll entered in Connected in which no event forces a
\* transition returns done and leaves the state Connected.
C13_Original ==
  (op = "spin" /\ path[1] = "Connected" /\ forced = "none")
    => (ret = "Ok" /\ fsm.state = "Connected")

\* The entries of h are pairwise distinct.
Distinct(h) == \A i, j \in 1..Len(h) : h[i] = h[j] => i = j

\* C14: the registry never holds more than N occupied slots, the ids handed
\* out and not released are pairwise distinct and are exactly the occupied
\* slots; allocate() on a full registry returns the capacity error and
\* changes nothing, otherwise it returns a slot that was free and occupies
\* only that slot; only release (or new socket storage) frees a slot.
C14_RegistryCapacity ==
  [][ sockets' # << >> =>
        /\ Cardinality(OccupiedSlots(sockets')) <= SocketSlots
        /\ Distinct(handles')
        /\ { handles'[i] : i \in 1..Len(handles') } = OccupiedSlots(sockets')
        /\ op' = "allocate" =>
             IF FreeSlots(sockets) = {}
             THEN /\ ret' = << "SocketSetFull" >>
                  /\ sockets' = sockets /\ handles' = handles
             ELSE /\ ret'[1] = "Ok" /\ ret'[2] \in FreeSlots(sockets)
                  /\ sockets' = [ sockets EXCEPT ![ret'[2]] = arg' ]
                  /\ handles' = Append(handles, ret'[2])
        /\ (sockets # << >> /\ op' \notin { "release", "set_socket_storage" }) =>
             OccupiedSlots(sockets) \subseteq OccupiedSlots(sockets') ]_vars

\* C14 witness: allocate() was refused by a full registry.
C14_Witness ==
  /\ op = "allocate" /\ ret = << "SocketSetFull" >>
  /\ OccupiedSlots(sockets) = 1..SocketSlots /\ Len(handles) = SocketSlots

\* C15: with an accepted baud rate configure sends, in this order, verbose
\* error reporting, carrier detect, ignore DTR, power saving off, hex mode
\* per configuration, airplane mode, flow control per configuration and
\* message-waiting indication off; it stops at the first command that fails
\* and returns that failure, and returns success once all eight succeeded.
C15_ConfigureOrder ==
  (op = "configure" /\ config.baud_rate <= BaudCeiling) =>
    LET want == << "SetReportMobileTerminationError(Verbose)",
                   "SetCircuit109Behaviour(ChangesWithCarrier)",
                   "SetCircuit108Behaviour(Ignore)",
                   "SetPowerSavingControl(Disabled)",
                   IF config.hex_mode THEN "SetHexMode(Enabled)"
                   ELSE "SetHexMode(Disabled)",
                   "SetModuleFunctionality(AirplaneMode)",
                   IF config.flow_control THEN "SetFlowControl(RtsCts)"
                   ELSE "SetFlowControl(Disabled)",
                   "SetMessageWaitingIndication(Disabled)" >>
        k == Len(io)
    IN  /\ k \in 1..8
        /\ \A i \in 1..k : io[i].cmd = want[i] /\ io[i].res = Outcome(arg.tx, i)
        /\ \A i \in 1..(k - 1) : io[i].res = "Ok"
        /\ ret = io[k].res
        /\ ret = "Ok" => k = 8

\* C15 witness: the sixth command failed after five succeeded, with hex mode
\* on, and nothing was sent after it.
C15_Witness ==
  /\ op = "configure" /\ config.hex_mode /\ ~config.flow_control
  /\ Len(io) = 6 /\ ret = "Parse"
  /\ io[5] = [ cmd |-> "SetHexMode(Enabled)", res |-> "Ok" ]
  /\ io[6] = [ cmd |-> "SetModuleFunctionality(AirplaneMode)", res |-> "Parse" ]

\* The calls of the effects l other than the arming of the backoff timer.
ArmCalls(l) == SelectSeq(l, LAMBDA e : e.cmd # "delay.try_start")

\* The action of state st, with calls l, ended in a retryable failure.
RetryableFailure(st, l, cfg) ==
  CASE st = "PowerOn" -> l # << >> /\ l[Len(l)].res # "Ok"
    [] st = "Configure" ->
         \/ cfg.baud_rate > BaudCeiling
         \/ l # << >> /\ l[Len(l)].res # "Ok"
    [] st = "SimPin" ->
         l # << >> /\ l[Len(l)].cmd = "GetPinStatus" /\ l[Len(l)].res = "SimPin"
    [] st = "RegisteringNetwork" ->
         l # << >> /\ l[1].cmd = "register"
                   /\ l[1].res \notin { "Ok", "RegistrationDenied" }
    [] st = "AttachingNetwork" ->
         l # << >> /\ l[1].cmd = "attach" /\ l[1].res # "Ok"
    [] OTHER -> FALSE

\* C16: a poll whose action ends in a retryable failure (PowerOn, Configure,
\* SimPin with the PIN not ready, RegisteringNetwork, AttachingNetwork)
\* returns still-pending; under the maximum it counts the attempt, arms the
\* backoff and leaves the state unchanged; at the maximum it arms nothing and
\* the state becomes PowerOn. No poll returns the state timeout, and these
\* are, with a registration denial, the only polls that take the retry step.
C16_RetryOrFallback ==
  [][ (op' = "spin" /\ arg' # "Gated") =>
        LET st == IF Len(path') >= 2 /\ arg' \in { "Ok", "Fatal" }
                  THEN path'[Len(path') - 1] ELSE path'[Len(path')]
            calls == ArmCalls(io')
            armed == io' # << >> /\ io'[Len(io')].cmd = "delay.try_start"
        IN  /\ ret' # "StateTimeout"
            /\ RetryableFailure(st, calls, config) =>
                 /\ ret' = "WouldBlock"
                 /\ IF fsm.retry_count < fsm.max_retry_attempts
                    THEN /\ arg' = "Err"
                         /\ fsm'.state = st
                         /\ fsm'.retry_count = fsm.retry_count + 1
                         /\ armed /\ Len(calls) = Len(io') - 1
                    ELSE /\ arg' = "Fatal"
                         /\ fsm'.state = "PowerOn"
                         /\ fsm'.retry_count = fsm.retry_count
                         /\ calls = io'
                 /\ fsm'.max_retry_attempts = fsm.max_retry_attempts
            /\ arg' \in { "Err", "Fatal" } =>
                 RetryableFailure(st, calls, config) \/ Denied(io') ]_vars

\* C16 witness: attach failed with the budget used up and the poll fell back
\* to PowerOn, returning still-pending.
C16_Witness ==
  /\ op = "spin" /\ arg = "Fatal" /\ ret = "WouldBlock"
  /\ path = << "AttachingNetwork", "PowerOn" >>
  /\ io = << [ cmd |-> "attach", res |-> "Timeout" ] >>
  /\ fsm.retry_count = MaxRetryAttempts /\ fsm.max_retry_attempts = MaxRetryAttempts

C18_DeviceReadyPropagates ==
  [][ (op' = "spin" /\ arg' # "Gated"
       /\ (IF Len(path') >= 2 /\ arg' \in { "Ok", "Fatal" }
           THEN path'[Len(path') - 1] ELSE path'[Len(path')]) = "DeviceReady") =>
        LET n == Len(io')
        IN  /\ n \in 1..2
            /\ io'[1].cmd = "SetRadioAccessTechnology(Lte,Utran)"
            /\ n = 2 <=> io'[1].res = "Ok"
            /\ n = 2 => io'[2].cmd = "SetModuleFunctionality(Full)"
            /\ IF io'[n].res = "Ok"
               THEN /\ arg' = "Ok" /\ ret' = "WouldBlock"
                    /\ fsm'.state = "SimPin"
               ELSE /\ arg' = "Return" /\ ret' = io'[n].res
                    /\ ret' \in NetErrors
                    /\ fsm'.state = "DeviceReady"
            /\ fsm'.retry_count = fsm.retry_count
            /\ fsm'.max_retry_attempts = fsm.max_retry_attempts
            /\ UNCHANGED << attached, pdp_context_active >> ]_vars

\* C18 witness: the first command failed in DeviceReady, the second was not
\* sent and the poll returned the failure.
C18_Witness ==
  /\ op = "spin" /\ arg = "Return" /\ ret = "Timeout"
  /\ path = << "DeviceReady" >> /\ fsm.state = "DeviceReady"
  /\ io = << [ cmd |-> "SetRadioAccessTechnology(Lte,Utran)", res |-> "Timeout" ] >>

C20_ReachesConnected ==
  /\ config.baud_rate <= BaudCeiling => <>(fsm.state = "Connected")
  /\ [][ (config.baud_rate <= BaudCeiling /\ fsm.state # "Connected") =>
           /\ op' = "spin" /\ ret' = "WouldBlock"
           /\ Ord(fsm'.state) = Ord(fsm.state) + 1 ]_vars
  /\ [](config.baud_rate > BaudCeiling => Ord(fsm.state) < Ord("DeviceReady"))

\* C20 witness: eight polls from Init have reached Connected and the ninth
\* returned done.
C20_Witness ==
  /\ config.baud_rate <= BaudCeiling
  /\ op = "spin" /\ ret = "Ok" /\ fsm.state = "Connected" /\ fsm.retry_count = 0

====
